---------------------------- MODULE Spec2Model ----------------------------
(***************************************************************************)
(* A model of finger-ban: the gesture classifier                           *)
(* (FingerBanDetector.is_middle_finger_up and the demo classifier of       *)
(* setup_check.py), the region redactor (blur_hand_region), the per-frame  *)
(* pipeline (process_frame) and the capture loop of main().                *)
(*                                                                         *)
(* A normalised coordinate c in [0,1] is held as the integer k with        *)
(* c = k / CoordDen.  A Python list is a TLA+ sequence: Python's lm[i] is  *)
(* lm[i+1] here.                                                           *)
(***************************************************************************)
EXTENDS Integers, Sequences, FiniteSets, TLC

VARIABLES
    landmarks,        \* classifier/redactor input: a sequence of points
    called,           \* which functions have returned for this input
    retMain,          \* outcome of is_middle_finger_up(landmarks)
    retDemo,          \* outcome of is_middle_finger_gesture_demo(landmarks)
    image,            \* redactor input frame
    cvRaises,         \* redactor input: cv2.GaussianBlur raises
    outImage,         \* frame returned by blur_hand_region
    pc,               \* main(): position in the capture loop
    cap,              \* main(): the cv2.VideoCapture handle
    detection_count,  \* main(): the session counter
    scene,            \* main(): what the current frame shows (provider output and collaborator faults)
    pf,               \* main(): outcome of process_frame for the current frame
    key,              \* main(): the key returned by cv2.waitKey for this iteration
    hist              \* history: bookkeeping used only to state properties

vars == <<landmarks, called, retMain, retDemo, image, cvRaises, outImage,
          pc, cap, detection_count, scene, pf, key, hist>>

clsVars  == <<landmarks, called, retMain, retDemo>>
blurVars == <<image, cvRaises, outImage>>
loopVars == <<pc, cap, detection_count, scene, pf, key, hist>>

-----------------------------------------------------------------------------
(* Bounds of the model *)

\* normalised coordinates are multiples of 1/CoordDen
CoordDen == 4
\* the classifier's inputs take their y coordinates in 0..ClsGrid
ClsGrid == 1
\* lengths of landmark sequences beyond 21 that are tried
MaxExtra == 1

(* Program constants *)

HandPoints == 21
THUMB_TIP == 4
THUMB_IP == 3
INDEX_TIP == 8
INDEX_PIP == 6
MIDDLE_TIP == 12
MIDDLE_PIP == 10
RING_TIP == 16
RING_PIP == 14
PINKY_TIP == 20
PINKY_PIP == 18
Padding == 50
BlurIntensity == 51
MaxNumHands == 2

-----------------------------------------------------------------------------
(* Helpers *)

Min2(a, b) == IF a <= b THEN a ELSE b
Max2(a, b) == IF a >= b THEN a ELSE b
Abs(a) == IF a < 0 THEN -a ELSE a

\* Python's min(list) and max(list) over a non-empty set of integers
MinOf(S) == CHOOSE m \in S : \A e \in S : m <= e
MaxOf(S) == CHOOSE m \in S : \A e \in S : m >= e

\* Python's seq[i] (0-based); InRange says whether it raises IndexError
InRange(seq, i) == i < Len(seq)
At(seq, i) == seq[i + 1]

Pt(px, py) == [x |-> px, y |-> py]

-----------------------------------------------------------------------------
(* The gesture classifier, main.py *)

\* The indices is_middle_finger_up reads, in the order it reads them
ReadIndices == <<THUMB_TIP, THUMB_IP, INDEX_TIP, INDEX_PIP, MIDDLE_TIP, MIDDLE_PIP,
                 RING_TIP, RING_PIP, PINKY_TIP, PINKY_PIP>>

\* abs(thumb_tip.x - thumb_ip.x) < 0.05, computed and never used
thumb_folded(lm) == 20 * Abs(At(lm, THUMB_TIP).x - At(lm, THUMB_IP).x) < CoordDen

\* faulty variants of Verdict, for checking that the claims tell them apart:
\* ties counted as extended/folded, and the thumb made part of the decision
VerdictTiesExtended(lm) ==
    /\ At(lm, MIDDLE_TIP).y <= At(lm, MIDDLE_PIP).y
    /\ At(lm, INDEX_TIP).y >= At(lm, INDEX_PIP).y
    /\ At(lm, RING_TIP).y > At(lm, RING_PIP).y
    /\ At(lm, PINKY_TIP).y > At(lm, PINKY_PIP).y

VerdictWithThumb(lm) ==
    /\ At(lm, MIDDLE_TIP).y < At(lm, MIDDLE_PIP).y
    /\ At(lm, INDEX_TIP).y > At(lm, INDEX_PIP).y
    /\ At(lm, RING_TIP).y > At(lm, RING_PIP).y
    /\ At(lm, PINKY_TIP).y > At(lm, PINKY_PIP).y
    /\ thumb_folded(lm)

\* lines 47-60: the verdict once every landmark has been read
Verdict(lm) ==
    LET middle_extended == At(lm, MIDDLE_TIP).y < At(lm, MIDDLE_PIP).y
        index_folded    == At(lm, INDEX_TIP).y > At(lm, INDEX_PIP).y
        ring_folded     == At(lm, RING_TIP).y > At(lm, RING_PIP).y
        pinky_folded    == At(lm, PINKY_TIP).y > At(lm, PINKY_PIP).y
    IN  middle_extended /\ index_folded /\ ring_folded /\ pinky_folded

\* lines 31-60, the body of the try: raises IndexError at the first index read
\* that the sequence does not have
ClassifyBody(lm) ==
    IF \E k \in 1..Len(ReadIndices) : ~InRange(lm, ReadIndices[k])
    THEN [raised |-> TRUE, value |-> FALSE]
    ELSE [raised |-> FALSE, value |-> Verdict(lm)]

\* lines 25-63: except Exception -> return False.  escaped: an exception
\* leaves the function
is_middle_finger_up(lm) ==
    LET b == ClassifyBody(lm)
    IN  IF b.raised THEN [escaped |-> FALSE, value |-> FALSE]
                    ELSE [escaped |-> FALSE, value |-> b.value]

-----------------------------------------------------------------------------
(* The demo classifier, setup_check.py *)

\* the demo's landmarks are (x, y) tuples: landmarks[i][1] is the y coordinate
AsTuples(lm) == [i \in 1..Len(lm) |-> <<lm[i].x, lm[i].y>>]
TupleY(t) == t[2]

DemoIndices == <<INDEX_TIP, INDEX_PIP, MIDDLE_TIP, MIDDLE_PIP,
                 RING_TIP, RING_PIP, PINKY_TIP, PINKY_PIP>>

\* lines 86-112; there is no try here: an IndexError escapes
is_middle_finger_gesture_demo(tl) ==
    IF \E k \in 1..Len(DemoIndices) : ~InRange(tl, DemoIndices[k])
    THEN [escaped |-> TRUE, value |-> FALSE]
    ELSE LET middle_extended == TupleY(At(tl, MIDDLE_TIP)) < TupleY(At(tl, MIDDLE_PIP))
             index_folded    == TupleY(At(tl, INDEX_TIP)) > TupleY(At(tl, INDEX_PIP))
             ring_folded     == TupleY(At(tl, RING_TIP)) > TupleY(At(tl, RING_PIP))
             pinky_folded    == TupleY(At(tl, PINKY_TIP)) > TupleY(At(tl, PINKY_PIP))
         IN  [escaped |-> FALSE,
              value |-> middle_extended /\ index_folded /\ ring_folded /\ pinky_folded]

-----------------------------------------------------------------------------
(* The region redactor, main.py *)

\* int(landmark.x * w): the product of a coordinate k/CoordDen and a size,
\* truncated towards zero
ToPixel(k, size) ==
    IF k * size >= 0 THEN (k * size) \div CoordDen
                     ELSE -((-(k * size)) \div CoordDen)

\* lines 71-72
x_coords(lm, w) == {ToPixel(lm[i].x, w) : i \in 1..Len(lm)}
y_coords(lm, h) == {ToPixel(lm[i].y, h) : i \in 1..Len(lm)}

\* a faulty variant of HandBox: the padding applied without the clamps
HandBoxUnclamped(h, w, lm) ==
    [x_min |-> MinOf(x_coords(lm, w)) - Padding,
     x_max |-> MaxOf(x_coords(lm, w)) + Padding,
     y_min |-> MinOf(y_coords(lm, h)) - Padding,
     y_max |-> MaxOf(y_coords(lm, h)) + Padding]

\* lines 74-75, for a non-empty landmark sequence
HandBox(h, w, lm) ==
    [x_min |-> Max2(0, MinOf(x_coords(lm, w)) - Padding),
     x_max |-> Min2(w, MaxOf(x_coords(lm, w)) + Padding),
     y_min |-> Max2(0, MinOf(y_coords(lm, h)) - Padding),
     y_max |-> Min2(h, MaxOf(y_coords(lm, h)) + Padding)]

\* the indices a Python slice [lo:hi] selects on an axis of length n
SliceBound(i, n) == IF i < 0 THEN Max2(i + n, 0) ELSE Min2(i, n)
SliceRange(lo, hi, n) == {i \in 0..(n - 1) : SliceBound(lo, n) <= i /\ i < SliceBound(hi, n)}

\* line 78: the rows and the columns of image[y_min:y_max, x_min:x_max]
RegionRows(img, b) == SliceRange(b.y_min, b.y_max, img.shape[1])
RegionCols(img, b) == SliceRange(b.x_min, b.x_max, img.shape[2])

\* a faulty variant of InRegion: every column of the selected rows
InRegionRows(p, img, b) == p[1] \in RegionRows(img, b)

\* whether pixel p = <<row, column>> lies in image[y_min:y_max, x_min:x_max]
InRegion(p, img, b) == p[1] \in RegionRows(img, b) /\ p[2] \in RegionCols(img, b)

\* lines 65-90.  raises: cv2.GaussianBlur raises (it also does for an even
\* kernel size).  A pixel is "raw" as captured and "blur" once smoothed.
\* Every exception is caught and the image returned as it is.
blur_hand_region(img, lm, raises) ==
    IF Len(img.shape) # 3 THEN img               \* h, w, _ = image.shape raises
    ELSE IF Len(lm) = 0 THEN img                 \* min() of an empty list raises
    ELSE LET h == img.shape[1]
             w == img.shape[2]
             b == HandBox(h, w, lm)
             size == Cardinality(RegionRows(img, b)) * Cardinality(RegionCols(img, b))
                        * img.shape[3]
         IN  IF size > 0
             THEN IF raises \/ BlurIntensity % 2 = 0
                  THEN img
                  ELSE [img EXCEPT !.pix =
                           [p \in DOMAIN img.pix |->
                               IF InRegion(p, img, b) THEN "blur" ELSE img.pix[p]]]
             ELSE img

-----------------------------------------------------------------------------
(* The frame pipeline, main.py *)

\* a frame as captured
RawImage(shape) ==
    [shape |-> shape,
     pix |-> [p \in (0..(shape[1] - 1)) \X (0..(shape[2] - 1)) |-> "raw"]]

\* history: whether blur_hand_region smooths any pixel of a frame of this shape
Redacts(img, lm, raises) ==
    blur_hand_region(RawImage(img.shape), lm, raises) # RawImage(img.shape)

\* lines 102-120, the loop over the hands from hand i on.  A hand is
\* [lm, fault]: its landmarks and the collaborator that raises while it is
\* processed ("blur": cv2.GaussianBlur, "overlay": cv2.putText for a flagged
\* hand, draw_landmarks for a normal one, "none").  acc.raised: an exception
\* left the loop, on its way to the except of line 123.
RECURSIVE HandLoop(_, _, _)
HandLoop(hands, i, acc) ==
    IF i > Len(hands) THEN acc
    ELSE LET hd == hands[i]
             seen == [acc EXCEPT !.classified = @ \cup {i}]
         IN  IF is_middle_finger_up(hd.lm).value
             THEN LET blurred ==
                          [seen EXCEPT
                              !.detected = TRUE,
                              !.flagged = @ \cup {i},
                              !.frame = blur_hand_region(acc.frame, hd.lm, hd.fault = "blur"),
                              !.redacted = IF Redacts(acc.frame, hd.lm, hd.fault = "blur")
                                           THEN @ \cup {i} ELSE @]
                  IN  IF hd.fault = "overlay"
                      THEN [blurred EXCEPT !.raised = TRUE]
                      ELSE HandLoop(hands, i + 1, [blurred EXCEPT !.warned = @ \cup {i}])
             ELSE IF hd.fault = "overlay"
                  THEN [seen EXCEPT !.raised = TRUE]
                  ELSE HandLoop(hands, i + 1, [seen EXCEPT !.drawn = @ \cup {i}])

\* line 99 and the state of the frame as the loop starts
PfStart(frame) ==
    [frame |-> frame, detected |-> FALSE, classified |-> {}, flagged |-> {},
     redacted |-> {}, warned |-> {}, drawn |-> {}, raised |-> FALSE]

\* lines 92-125.  sc.providerRaises: cvtColor or hands.process raises.
\* except Exception -> return frame, False
process_frame(frame, sc) ==
    IF sc.providerRaises
    THEN [PfStart(frame) EXCEPT !.raised = TRUE]
    ELSE LET r == HandLoop(sc.hands, 1, PfStart(frame))
         IN  IF r.raised THEN [r EXCEPT !.detected = FALSE] ELSE r

-----------------------------------------------------------------------------
(* Inputs and idle values of the three specifications *)

NoRet == [escaped |-> FALSE, value |-> FALSE]
NoImage == [shape |-> <<0, 0, 0>>, pix |-> <<>>]
NoCap == [created |-> FALSE, opened |-> FALSE, released |-> FALSE]
NoScene == [hands |-> <<>>, providerRaises |-> FALSE]
NoPf == PfStart(NoImage)
NoHist == [frames |-> 0, flaggedFrames |-> 0, polls |-> 0, quitSeen |-> FALSE,
           looped |-> FALSE, opens |-> 0, done |-> {}, atQuit |-> <<0, 0>>]

\* the landmark indices whose y coordinate the verdict reads
VerdictIndices == {INDEX_PIP, INDEX_TIP, MIDDLE_PIP, MIDDLE_TIP,
                   RING_PIP, RING_TIP, PINKY_PIP, PINKY_TIP}

\* a 21-point hand: the y coordinates ys at the indices the verdict reads, the
\* thumb tip at x = tx, every other coordinate 0
Hand(ys, tx) ==
    [i \in 1..HandPoints |->
        Pt(IF i - 1 = THUMB_TIP THEN tx ELSE 0,
           IF i - 1 \in VerdictIndices THEN ys[i - 1] ELSE 0)]

\* the first n points of h, followed by points at the origin when n > Len(h)
Resize(h, n) == [i \in 1..n |-> IF i <= Len(h) THEN h[i] ELSE Pt(0, 0)]

ClsLengths == {0, MIDDLE_TIP, PINKY_TIP, HandPoints}
                \cup {HandPoints + k : k \in 1..MaxExtra}

ClsInputs ==
    { Resize(Hand(ys, tx), n) :
        ys \in [VerdictIndices -> 0..ClsGrid], tx \in {0, CoordDen}, n \in ClsLengths }

-----------------------------------------------------------------------------
(* SpecClassify: the two classifiers applied to one landmark sequence *)

InitClassify ==
    /\ landmarks \in ClsInputs
    /\ called = {}
    /\ retMain = NoRet
    /\ retDemo = NoRet
    /\ image = NoImage /\ cvRaises = FALSE /\ outImage = NoImage
    /\ pc = "idle" /\ cap = NoCap /\ detection_count = 0
    /\ scene = NoScene /\ pf = NoPf /\ key = "none" /\ hist = NoHist

CallClassify ==
    /\ pc = "idle"
    /\ "main" \notin called
    /\ retMain' = is_middle_finger_up(landmarks)
    /\ called' = called \cup {"main"}
    /\ UNCHANGED <<landmarks, retDemo>>
    /\ UNCHANGED blurVars
    /\ UNCHANGED loopVars

CallDemo ==
    /\ pc = "idle"
    /\ "demo" \notin called
    /\ retDemo' = is_middle_finger_gesture_demo(AsTuples(landmarks))
    /\ called' = called \cup {"demo"}
    /\ UNCHANGED <<landmarks, retMain>>
    /\ UNCHANGED blurVars
    /\ UNCHANGED loopVars

NextClassify == CallClassify \/ CallDemo

SpecClassify == InitClassify /\ [][NextClassify]_vars

\* lm with the point at (0-based) index i replaced by p
Replace(lm, i, p) == [lm EXCEPT ![i + 1] = p]

GridPoints == {Pt(px, py) : px \in 0..CoordDen, py \in 0..CoordDen}

(* C1: for a 21-point set the verdict is Flagged exactly when the middle tip
   (12) is above its pip (10) and the index (8 vs 6), ring (16 vs 14) and pinky
   (20 vs 18) tips are below theirs; moving any thumb landmark (1..4) leaves
   the verdict as it is; and the demo classifier returns the same verdict. *)
C1_Verdict ==
    (Len(landmarks) = 21 /\ "main" \in called) =>
        /\ ~retMain.escaped
        /\ retMain.value <=>
              /\ At(landmarks, 12).y < At(landmarks, 10).y
              /\ At(landmarks, 8).y > At(landmarks, 6).y
              /\ At(landmarks, 16).y > At(landmarks, 14).y
              /\ At(landmarks, 20).y > At(landmarks, 18).y
        /\ \A i \in 1..4 : \A p \in GridPoints :
              is_middle_finger_up(Replace(landmarks, i, p)).value = retMain.value
        /\ "demo" \in called => (~retDemo.escaped /\ retDemo.value = retMain.value)

C1_Witness ==
    /\ Len(landmarks) = 21
    /\ called = {"main", "demo"}
    /\ retMain.value
    /\ retDemo.value
    /\ ~thumb_folded(landmarks)

(* C2: a landmark sequence whose length is not 21 is classified Normal and
   no error leaves the classifier. *)
C2_NotTwentyOneIsNormal ==
    (Len(landmarks) # 21 /\ "main" \in called) =>
        (~retMain.escaped /\ ~retMain.value)

(* C9: a 21-point set with a tie (tip.y = pip.y) on the index, middle, ring
   or pinky finger is classified Normal. *)
HasTie(lm) ==
    \/ At(lm, INDEX_TIP).y = At(lm, INDEX_PIP).y
    \/ At(lm, MIDDLE_TIP).y = At(lm, MIDDLE_PIP).y
    \/ At(lm, RING_TIP).y = At(lm, RING_PIP).y
    \/ At(lm, PINKY_TIP).y = At(lm, PINKY_PIP).y

C9_TieIsNormal ==
    (Len(landmarks) = 21 /\ "main" \in called /\ HasTie(landmarks)) => ~retMain.value

\* a tie on the index finger alone, every other finger as in the flagged pose
C9_Witness ==
    /\ Len(landmarks) = 21
    /\ "main" \in called
    /\ At(landmarks, INDEX_TIP).y = At(landmarks, INDEX_PIP).y
    /\ At(landmarks, MIDDLE_TIP).y < At(landmarks, MIDDLE_PIP).y
    /\ At(landmarks, RING_TIP).y > At(landmarks, RING_PIP).y
    /\ At(landmarks, PINKY_TIP).y > At(landmarks, PINKY_PIP).y
    /\ ~retMain.value

-----------------------------------------------------------------------------
(* SpecBlur: blur_hand_region applied to one frame and one landmark sequence *)

\* the height of the tall frame and the width of the wide frame that are tried
MaxH == 104
MaxW == 108

Shapes == {<<0, 6, 3>>, <<4, 0, 3>>, <<5, 5>>, <<2, MaxW, 3>>, <<MaxH, 1, 1>>}

\* a 21-point hand whose landmarks alternate between the points p and q
SpanHand(p, q) == [i \in 1..HandPoints |-> IF i % 2 = 1 THEN p ELSE q]

BlurInputs ==
    { Resize(SpanHand(p, q), n) : p \in GridPoints, q \in GridPoints, n \in {0, 1, HandPoints} }

InitBlur ==
    /\ landmarks \in BlurInputs
    /\ image \in {RawImage(s) : s \in Shapes}
    /\ cvRaises \in BOOLEAN
    /\ outImage = NoImage
    /\ called = {}
    /\ retMain = NoRet /\ retDemo = NoRet
    /\ pc = "idle" /\ cap = NoCap /\ detection_count = 0
    /\ scene = NoScene /\ pf = NoPf /\ key = "none" /\ hist = NoHist

CallBlur ==
    /\ pc = "idle"
    /\ "blur" \notin called
    /\ outImage' = blur_hand_region(image, landmarks, cvRaises)
    /\ called' = called \cup {"blur"}
    /\ UNCHANGED <<landmarks, retMain, retDemo, image, cvRaises>>
    /\ UNCHANGED loopVars

NextBlur == CallBlur

SpecBlur == InitBlur /\ [][NextBlur]_vars

\* the box the claims describe: the bounding box of the landmarks' pixel
\* positions, grown by 50 pixels on each side and cut to the frame
ClaimBox(h, w, lm) ==
    LET xs == {(lm[i].x * w) \div CoordDen : i \in 1..Len(lm)}
        ys == {(lm[i].y * h) \div CoordDen : i \in 1..Len(lm)}
        lox == MinOf(xs) - 50
        hix == MaxOf(xs) + 50
        loy == MinOf(ys) - 50
        hiy == MaxOf(ys) + 50
    IN  [x_min |-> IF lox < 0 THEN 0 ELSE lox,
         x_max |-> IF hix > w THEN w ELSE hix,
         y_min |-> IF loy < 0 THEN 0 ELSE loy,
         y_max |-> IF hiy > h THEN h ELSE hiy]

InBox(p, b) == b.y_min <= p[1] /\ p[1] < b.y_max /\ b.x_min <= p[2] /\ p[2] < b.x_max

Changed(p) == outImage.pix[p] # image.pix[p]

BlurCase == "blur" \in called /\ Len(image.shape) = 3 /\ Len(landmarks) > 0

(* C5: for landmarks in [0,1] (edges included) the redacted region is the
   landmarks' pixel bounding box grown by 50 pixels on each side and clamped;
   0 <= x_min <= x_max <= w and 0 <= y_min <= y_max <= h; and every redacted
   pixel lies in [0,w) x [0,h). *)
C5_BoxInFrame ==
    BlurCase =>
        LET h == image.shape[1]
            w == image.shape[2]
            b == HandBox(h, w, landmarks)
        IN  /\ b = ClaimBox(h, w, landmarks)
            /\ 0 <= b.x_min /\ b.x_min <= b.x_max /\ b.x_max <= w
            /\ 0 <= b.y_min /\ b.y_min <= b.y_max /\ b.y_max <= h
            /\ \A p \in DOMAIN outImage.pix :
                  Changed(p) => /\ InBox(p, b)
                                /\ 0 <= p[2] /\ p[2] < w
                                /\ 0 <= p[1] /\ p[1] < h
            /\ (~cvRaises) => \A p \in DOMAIN image.pix : InBox(p, b) => Changed(p)

\* landmarks on the frame's edges, a box clamped on the left and at the top
\* and open on the right, and pixels redacted
C5_Witness ==
    /\ BlurCase
    /\ \E i \in 1..Len(landmarks) : landmarks[i].x = 0 /\ landmarks[i].y = CoordDen
    /\ \E i \in 1..Len(landmarks) : landmarks[i].x = CoordDen
    /\ HandBox(image.shape[1], image.shape[2], landmarks).x_max = image.shape[2]
    /\ HandBox(image.shape[1], image.shape[2], landmarks).y_min > 0
    /\ \E p \in DOMAIN image.pix : Changed(p)

(* C6: the returned frame has the width, height and channel count of the
   input, every pixel outside the padded, clamped box is as it was, and a box
   of zero area leaves the whole frame as it was. *)
C6_FrameKept ==
    "blur" \in called =>
        /\ outImage.shape = image.shape
        /\ DOMAIN outImage.pix = DOMAIN image.pix
        /\ BlurCase =>
              LET b == ClaimBox(image.shape[1], image.shape[2], landmarks)
              IN  /\ \A p \in DOMAIN image.pix : ~InBox(p, b) => ~Changed(p)
                  /\ (b.x_max - b.x_min) * (b.y_max - b.y_min) = 0 => outImage = image
        /\ ~BlurCase => outImage = image

\* a frame in which some pixels are redacted and others, outside the box on
\* either side of it, are not
C6_Witness ==
    /\ BlurCase
    /\ \E p \in DOMAIN image.pix : Changed(p)
    /\ \E p, q \in DOMAIN image.pix :
          /\ ~Changed(p) /\ ~Changed(q)
          /\ p[2] < HandBox(image.shape[1], image.shape[2], landmarks).x_min
          /\ q[2] >= HandBox(image.shape[1], image.shape[2], landmarks).x_max

\* a box of zero area
C6_WitnessEmpty ==
    /\ BlurCase
    /\ image.shape[2] = 0
    /\ outImage = image

-----------------------------------------------------------------------------
(* Spec: main(), the capture loop *)

\* frames read before the camera stops delivering
MaxFrames == 2

LoopShape == <<2, 2, 3>>

\* the flagged pose and the open hand (every finger extended) of the demo,
\* on the model's grid, and a landmark sequence one point short
FlaggedHand ==
    Hand([i \in VerdictIndices |->
            IF i \in {INDEX_TIP, RING_TIP, PINKY_TIP, MIDDLE_PIP} THEN ClsGrid ELSE 0], 0)
OpenHand ==
    Hand([i \in VerdictIndices |->
            IF i \in {INDEX_PIP, MIDDLE_PIP, RING_PIP, PINKY_PIP} THEN ClsGrid ELSE 0], 0)
ShortHand == Resize(FlaggedHand, PINKY_TIP)

SceneHands ==
    { [lm |-> l, fault |-> f] :
        l \in {FlaggedHand, OpenHand, ShortHand}, f \in {"none", "blur", "overlay"} }

HandLists == UNION { [1..n -> SceneHands] : n \in 0..MaxNumHands }

Scenes == { [hands |-> hs, providerRaises |-> r] : hs \in HandLists, r \in BOOLEAN }

\* the hands the provider returns for the scene that classify as flagged
FlaggedIn(sc) ==
    IF sc.providerRaises THEN {}
    ELSE {i \in 1..Len(sc.hands) : is_middle_finger_up(sc.hands[i].lm).value}

InLoop == pc \in {"read", "process", "count", "display", "keys"}

Init ==
    /\ pc = "start"
    /\ cap = NoCap
    /\ detection_count = 0
    /\ scene = NoScene
    /\ pf = NoPf
    /\ key = "none"
    /\ hist = NoHist
    /\ landmarks = <<>> /\ called = {} /\ retMain = NoRet /\ retDemo = NoRet
    /\ image = NoImage /\ cvRaises = FALSE /\ outImage = NoImage

\* lines 152-159: cap = cv2.VideoCapture(0); sys.exit(1) when it is not opened
OpenCamera ==
    /\ pc = "start"
    /\ \E opened \in BOOLEAN :
          /\ cap' = [created |-> TRUE, opened |-> opened, released |-> FALSE]
          /\ pc' = IF opened THEN "read" ELSE "exited"
          /\ hist' = [hist EXCEPT !.opens = @ + 1, !.looped = opened]
    /\ detection_count' = 0
    /\ UNCHANGED <<scene, pf, key>>
    /\ UNCHANGED clsVars
    /\ UNCHANGED blurVars

\* lines 163-169: ret, frame = cap.read(); break when ret is false
ReadFrame ==
    /\ pc = "read"
    /\ \/ /\ hist.frames < MaxFrames
          /\ scene' \in Scenes
          /\ pc' = "process"
          /\ hist' = [hist EXCEPT !.frames = @ + 1, !.done = {}]
       \/ /\ pc' = "finally"
          /\ UNCHANGED <<scene, hist>>
    /\ UNCHANGED <<cap, detection_count, pf, key>>
    /\ UNCHANGED clsVars
    /\ UNCHANGED blurVars

\* line 172
ProcessFrame ==
    /\ pc = "process"
    /\ pf' = process_frame(RawImage(LoopShape), scene)
    /\ pc' = "count"
    /\ hist' = [hist EXCEPT
                  !.flaggedFrames = IF FlaggedIn(scene) # {} THEN @ + 1 ELSE @,
                  !.done = @ \cup {"processed"}]
    /\ UNCHANGED <<cap, detection_count, scene, key>>
    /\ UNCHANGED clsVars
    /\ UNCHANGED blurVars

\* lines 174-175
UpdateCounter ==
    /\ pc = "count"
    /\ detection_count' = IF pf.detected THEN detection_count + 1 ELSE detection_count
    /\ pc' = "display"
    /\ hist' = [hist EXCEPT !.done = @ \cup {"counted"}]
    /\ UNCHANGED <<cap, scene, pf, key>>
    /\ UNCHANGED clsVars
    /\ UNCHANGED blurVars

\* lines 178-188: the two putText calls and imshow; any of them may raise,
\* which the except of line 200 takes to the finally
Display ==
    /\ pc = "display"
    /\ \/ /\ pc' = "keys"
          /\ hist' = [hist EXCEPT !.done = @ \cup {"shown"}]
       \/ /\ pc' = "finally"
          /\ UNCHANGED hist
    /\ UNCHANGED <<cap, detection_count, scene, pf, key>>
    /\ UNCHANGED clsVars
    /\ UNCHANGED blurVars

\* a faulty variant of HandleKey: the reset is skipped when the frame was flagged
HandleKeyResetSkipped ==
    /\ pc = "keys"
    /\ \E k \in {"q", "r", "other"} :
          /\ key' = k
          /\ pc' = IF k = "q" THEN "finally" ELSE "read"
          /\ detection_count' = IF k = "r" /\ ~pf.detected THEN 0 ELSE detection_count
          /\ hist' = [hist EXCEPT
                        !.polls = @ + 1,
                        !.quitSeen = (k = "q"),
                        !.atQuit = <<hist.frames, detection_count>>,
                        !.flaggedFrames = IF k = "r" THEN 0 ELSE @]
    /\ UNCHANGED <<cap, scene, pf>>
    /\ UNCHANGED clsVars
    /\ UNCHANGED blurVars

\* lines 191-196: key = cv2.waitKey(1) & 0xFF; q breaks, r resets the counter
HandleKey ==
    /\ pc = "keys"
    /\ \E k \in {"q", "r", "other"} :
          /\ key' = k
          /\ pc' = IF k = "q" THEN "finally" ELSE "read"
          /\ detection_count' = IF k = "r" THEN 0 ELSE detection_count
          /\ hist' = [hist EXCEPT
                        !.polls = @ + 1,
                        !.quitSeen = (k = "q"),
                        !.atQuit = <<hist.frames, detection_count>>,
                        !.flaggedFrames = IF k = "r" THEN 0 ELSE @]
    /\ UNCHANGED <<cap, scene, pf>>
    /\ UNCHANGED clsVars
    /\ UNCHANGED blurVars

\* lines 198-199: KeyboardInterrupt anywhere inside the try
Interrupt ==
    /\ InLoop
    /\ pc' = "finally"
    /\ UNCHANGED <<cap, detection_count, scene, pf, key, hist>>
    /\ UNCHANGED clsVars
    /\ UNCHANGED blurVars

\* a faulty variant of Finally: the program stops without cap.release()
FinallyNoRelease ==
    /\ pc = "finally"
    /\ pc' = "exited"
    /\ UNCHANGED <<cap, detection_count, scene, pf, key, hist>>
    /\ UNCHANGED clsVars
    /\ UNCHANGED blurVars

\* lines 202-206: cap.release()
Finally ==
    /\ pc = "finally"
    /\ cap' = [cap EXCEPT !.released = TRUE]
    /\ pc' = "exited"
    /\ UNCHANGED <<detection_count, scene, pf, key, hist>>
    /\ UNCHANGED clsVars
    /\ UNCHANGED blurVars

Next ==
    \/ OpenCamera
    \/ ReadFrame
    \/ ProcessFrame
    \/ UpdateCounter
    \/ Display
    \/ HandleKey
    \/ Interrupt
    \/ Finally

Spec == Init /\ [][Next]_vars

-----------------------------------------------------------------------------
(* Claims about the capture loop *)

\* process_frame has returned for the current frame
Processed == pc \in {"count", "display", "keys"}

\* the loop is at a frame boundary, or past the counter update of the frame
CounterSettled == pc \in {"display", "keys", "read"}

(* C3: at every frame boundary the counter equals the number of frames since
   the last reset in which the provider returned at least one hand that
   classifies as flagged: one per such frame, none for any other frame, and
   zero after a reset. *)
C3_CounterCountsFlaggedFrames ==
    CounterSettled => detection_count = hist.flaggedFrames

(* C4: a failure while one hand is processed (classification, redaction or
   overlay) is kept to that hand: every hand of the frame is still
   classified, a hand whose processing failed counts as Normal, and every
   other flagged hand is redacted and reported. *)
C4_HandFailureIsLocal ==
    (Processed /\ ~scene.providerRaises) =>
        /\ pf.classified = 1..Len(scene.hands)
        /\ \A i \in 1..Len(scene.hands) :
              IF scene.hands[i].fault = "none"
              THEN i \in FlaggedIn(scene) => (i \in pf.redacted /\ pf.detected)
              ELSE (FlaggedIn(scene) \ {i} = {}) => ~pf.detected

(* C7: process_frame reports a detection exactly when some hand returned by
   the provider was classified Flagged; every such hand has its region
   redacted; with no such hand nothing is redacted and nothing reported. *)
C7_DetectedIffFlagged ==
    Processed =>
        /\ pf.detected <=> (FlaggedIn(scene) # {})
        /\ FlaggedIn(scene) \subseteq pf.redacted
        /\ FlaggedIn(scene) = {} => (pf.redacted = {} /\ ~pf.detected)

(* C8 as stated: whenever the program has stopped after creating the camera
   handle, the failure to open the camera included, the handle has been
   released. *)
C8_ReleasedOnEveryStop ==
    (pc = "exited" /\ cap.created) => cap.released

(* C8 as amended: the handle is created once, before the loop; whenever the
   program has stopped after entering the frame loop (quit key, read
   failure, keyboard interrupt, exception in the loop) the handle has been
   released; it is not released while the loop is running; and when the
   camera fails to open the program stops without releasing it. *)
C8_ReleasedAfterLoop ==
    /\ hist.opens <= 1
    /\ InLoop => (cap.created /\ cap.opened /\ ~cap.released /\ hist.opens = 1)
    /\ (pc = "exited" /\ hist.looped) => cap.released
    /\ cap.released => (pc = "exited" /\ hist.looped)
    /\ (pc = "exited" /\ ~hist.looped) => (cap.created /\ ~cap.opened /\ ~cap.released)

\* the program stopped on the quit key after a frame, the handle released
C8_Witness ==
    /\ pc = "exited"
    /\ hist.quitSeen
    /\ hist.frames > 0
    /\ cap.released

(* C10: the keys are polled once per iteration, after process_frame has
   returned for the frame, the counter has been updated and the frame
   displayed; once quit is seen no frame is read and the counter does not
   move; a reset polled in the iteration of a flagged frame leaves the
   counter at 0. *)
C10_KeysAtFrameBoundary ==
    /\ pc = "keys" => hist.done = {"processed", "counted", "shown"}
    /\ pc \in {"process", "count", "display", "keys"} => hist.polls = hist.frames - 1
    /\ pc = "read" => hist.polls = hist.frames
    /\ hist.polls <= hist.frames
    /\ hist.quitSeen =>
          /\ pc \in {"finally", "exited"}
          /\ key = "q"
          /\ hist.atQuit = <<hist.frames, detection_count>>
    /\ (pc = "read" /\ key = "r") => detection_count = 0

\* a reset polled in the iteration of a flagged frame
C10_Witness ==
    /\ pc = "read"
    /\ key = "r"
    /\ pf.detected
    /\ hist.frames = hist.polls
    /\ hist.frames > 0
    /\ detection_count = 0

=============================================================================
